---- MODULE Spec2Model ----
(***************************************************************************)
(* Model of cga_calculator_app.py: the Streamlit script that scrapes the   *)
(* ACGA rate tables, loads the IRS annuity-factor tables, reads the        *)
(* sidebar inputs, resolves the annuity rate and the annuity factor and    *)
(* derives payout, adjusted factor and estimated deduction.                *)
(*                                                                         *)
(* Numbers are fixed point, exact for the values the model draws:          *)
(*   annuity rates and annuity factors in tenths   (63  = 6.3, 95 = 9.5)   *)
(*   the frequency adjustment in 1/200             (195 = 0.975)           *)
(*   gift amounts in whole dollars, annual_payout in tenths of a dollar    *)
(*   adjusted_annuity_factor in 1/2000, estimated_deduction in 1/20000     *)
(*   irs_7520_rate in millionths of a percentage point (4240000 = 4.24)    *)
(* A column label "Rate_4.2" is the integer 42.                            *)
(* A pandas value is a record: kind "scalar" (one number), "Series"        *)
(* (what .loc returns for a duplicated index label) or "none" (unset).     *)
(* Lines 138-184 (PDF export, table display) only render the values and    *)
(* are left out.                                                           *)
(***************************************************************************)
EXTENDS Integers, Sequences, FiniteSets, TLC

VARIABLES
    pc,                         \* position of the script run
    rate_table,                 \* line 82: rows of the single-life DataFrame
    joint_rate_table,           \* line 83: rows of the joint-life DataFrame
    annuity_factors_df,         \* line 84 (cached)
    joint_annuity_factors_df,   \* line 85 (cached)
    sidebar_warnings,           \* st.sidebar.warning calls of the scrapers
    donor_age, joint_annuitant_age, is_joint,
    gift_amount, payout_frequency, irs_7520_rate,
    annuity_rate, rate_column, annuity_factor, warning,
    adjustment, annual_payout, adjusted_annuity_factor, estimated_deduction,
    error                       \* the exception that ended the run, or "none"

vars == <<pc, rate_table, joint_rate_table, annuity_factors_df,
          joint_annuity_factors_df, sidebar_warnings,
          donor_age, joint_annuitant_age, is_joint,
          gift_amount, payout_frequency, irs_7520_rate,
          annuity_rate, rate_column, annuity_factor, warning,
          adjustment, annual_payout, adjusted_annuity_factor,
          estimated_deduction, error>>

tables == <<rate_table, joint_rate_table, sidebar_warnings>>
factor_tables == <<annuity_factors_df, joint_annuity_factors_df>>
request == <<donor_age, joint_annuitant_age, is_joint,
             gift_amount, payout_frequency, irs_7520_rate>>
rate_out == <<annuity_rate>>
factor_out == <<rate_column, annuity_factor, warning>>
calc_out == <<adjustment, annual_payout, adjusted_annuity_factor,
              estimated_deduction>>

\* Most data rows a scraped table holds after its header row.
MaxRows == 2

(***************************************************************************)
(* pandas values                                                           *)
(***************************************************************************)
NoValue == [kind |-> "none", vals |-> <<>>]
Scalar(v) == [kind |-> "scalar", vals |-> <<v>>]
Series(vs) == [kind |-> "Series", vals |-> vs]
IsScalar(x) == x.kind = "scalar"
Val(x) == x.vals[1]

\* x * y where y is a scalar: elementwise over a Series.
Times(x, y) == [kind |-> x.kind, vals |-> [i \in DOMAIN x.vals |-> x.vals[i] * Val(y)]]
\* x / 100, exact for the amounts the model draws (multiples of 100).
Over100(x) == [kind |-> x.kind, vals |-> [i \in DOMAIN x.vals |-> x.vals[i] \div 100]]

\* The rows of a DataFrame are records [key, rate]; key is the index label.
Row(k, r) == [key |-> k, rate |-> r]
InIndex(df, k) == \E i \in DOMAIN df : df[i].key = k
IsEmptyDF(df) == Len(df) = 0
Matching(df, k) == SelectSeq(df, LAMBDA row : row.key = k)
\* df.loc[k, "Rate"]: a scalar for a label that occurs once, else a Series.
Loc(df, k) ==
    LET m == Matching(df, k)
    IN  IF Len(m) = 1 THEN Scalar(m[1].rate)
        ELSE Series([i \in DOMAIN m |-> m[i].rate])

(***************************************************************************)
(* The scraped page.  A cell is what int() and float() make of its text;   *)
(* a tr is the sequence of its cells; trs[1] is the header row.            *)
(***************************************************************************)
IntCell(n) == [int_ok |-> TRUE, float_ok |-> TRUE, num |-> n]      \* "75"
PctCell(r) == [int_ok |-> FALSE, float_ok |-> TRUE, num |-> r]     \* "6.3%"
TextCell == [int_ok |-> FALSE, float_ok |-> FALSE, num |-> 0]      \* "Age"

SeqsUpTo(S, n) == UNION {[1..k -> S] : k \in 0..n}

SingleHeaderRow == <<TextCell, TextCell>>
SingleDataRows ==
    {<<IntCell(75), PctCell(63)>>, <<IntCell(75), PctCell(65)>>,
     <<TextCell, PctCell(63)>>}
\* Age2 columns 75 and 67.  The first data row gives (67,75); its second
\* cell does not parse.  The second gives (75,75) and (75,67).
JointHeaderRow == <<TextCell, IntCell(75), IntCell(67)>>
JointDataRows ==
    {<<IntCell(67), PctCell(55), TextCell>>,
     <<IntCell(75), PctCell(58), PctCell(57)>>,
     <<TextCell, PctCell(58), PctCell(57)>>}

\* What requests.get and the table search give: the request failed, the
\* page has no such table, or the table's rows.
Page(st, trs) == [status |-> st, trs |-> trs]
SinglePages ==
    {Page("failed", <<>>), Page("no_table", <<>>)}
    \cup {Page("ok", <<SingleHeaderRow>> \o d) : d \in SeqsUpTo(SingleDataRows, MaxRows)}
JointPages ==
    {Page("failed", <<>>), Page("no_table", <<>>)}
    \cup {Page("ok", <<JointHeaderRow>> \o d) : d \in SeqsUpTo(JointDataRows, MaxRows)}

\* Lines 29-38: one (age, rate) tuple per row whose two cells parse; other
\* rows are skipped.  Nothing is done about an age that occurs twice.
RECURSIVE SingleData(_)
SingleData(rows) ==
    IF rows = <<>> THEN <<>>
    ELSE LET cols == Head(rows)
             parsed == Len(cols) >= 2 /\ cols[1].int_ok /\ cols[2].float_ok
         IN  (IF parsed THEN <<Row(cols[1].num, cols[2].num)>> ELSE <<>>)
             \o SingleData(Tail(rows))

\* Lines 15-39.
get_acga_single_life_rates(page) ==
    IF page.status # "ok" THEN <<>>
    ELSE SingleData(Tail(page.trs))

\* Lines 66-68: the cells of one row, in order, until one fails to parse or
\* has no header above it; the tuples appended before that stay.
RECURSIVE JointCells(_, _, _, _)
JointCells(age1, cells, j, age2_vals) ==
    IF j > Len(cells) THEN <<>>
    ELSE IF ~cells[j].float_ok \/ j > Len(age2_vals) THEN <<>>
    ELSE <<Row(<<age1, age2_vals[j]>>, cells[j].num)>>
         \o JointCells(age1, cells, j + 1, age2_vals)

\* Lines 59-70.
RECURSIVE JointData(_, _)
JointData(rows, age2_vals) ==
    IF rows = <<>> THEN <<>>
    ELSE LET cols == Head(rows)
         IN  (IF Len(cols) = 0 \/ ~cols[1].int_ok THEN <<>>
              ELSE JointCells(cols[1].num, Tail(cols), 1, age2_vals))
             \o JointData(Tail(rows), age2_vals)

\* Lines 42-71.
get_acga_joint_life_rates(page) ==
    IF page.status # "ok" THEN <<>>
    ELSE LET headers == Tail(page.trs[1])
             age2_vals == [i \in DOMAIN headers |-> headers[i].num]
         IN  JointData(Tail(page.trs), age2_vals)

(***************************************************************************)
(* Lines 74-80: what load_annuity_factors and load_joint_annuity_factors    *)
(* return, the CSV indexed by Age or by (Age1, Age2).  cols is the set of  *)
(* Rate_x.y columns, rows maps an index label to the factor in each        *)
(* column.  Index labels are unique in the tables drawn.                   *)
(***************************************************************************)
SingleFactorTables ==
    {[cols |-> {42}, rows |-> (75 :> (42 :> 95))],
     [cols |-> {42, 43},
      rows |-> (67 :> (42 :> 101 @@ 43 :> 100) @@ 75 :> (42 :> 95 @@ 43 :> 94))]}
JointFactorTables ==
    {[cols |-> {42, 43}, rows |-> <<>>],
     [cols |-> {42}, rows |-> (<<67, 75>> :> (42 :> 87))],
     [cols |-> {42, 43}, rows |-> (<<75, 67>> :> (42 :> 88 @@ 43 :> 86))]}

(***************************************************************************)
(* The sidebar widgets, lines 88-96.                                       *)
(***************************************************************************)
AgeMin == 20
AgeMax == 100
GiftMin == 1000
SliderMin == 3000000
SliderMax == 6000000

DonorAges == {a \in {67, 75} : AgeMin <= a /\ a <= AgeMax}
JointOptions == {"No", "Yes"}
GiftAmounts == {g \in {1000, 100000} : g >= GiftMin}
PayoutFrequencies == {"Annual", "Semiannual", "Quarterly", "Monthly"}
SliderRates == {r \in {4240000, 4300000} : SliderMin <= r /\ r <= SliderMax}

(***************************************************************************)
(* Lines 98-103: the annuity rate.                                         *)
(***************************************************************************)
FallbackRate == 60

\* Variant: a joint miss on (age, age2) tries the swapped pair.
annuity_rate_unordered(joint, age, age2, rt, jrt) ==
    IF joint = "Yes" /\ ~IsEmptyDF(jrt)
    THEN IF InIndex(jrt, <<age, age2>>) THEN Loc(jrt, <<age, age2>>)
         ELSE IF InIndex(jrt, <<age2, age>>) THEN Loc(jrt, <<age2, age>>)
         ELSE Scalar(FallbackRate)
    ELSE IF InIndex(rt, age) THEN Loc(rt, age)
         ELSE Scalar(FallbackRate)

\* Variant: the joint table is used whenever it has rows, whatever the flag.
annuity_rate_any_joint(joint, age, age2, rt, jrt) ==
    IF ~IsEmptyDF(jrt)
    THEN IF InIndex(jrt, <<age, age2>>) THEN Loc(jrt, <<age, age2>>)
         ELSE Scalar(FallbackRate)
    ELSE IF InIndex(rt, age) THEN Loc(rt, age)
         ELSE Scalar(FallbackRate)

annuity_rate_for(joint, age, age2, rt, jrt) ==
    IF joint = "Yes" /\ ~IsEmptyDF(jrt)
    THEN IF InIndex(jrt, <<age, age2>>) THEN Loc(jrt, <<age, age2>>)
         ELSE Scalar(FallbackRate)
    ELSE IF InIndex(rt, age) THEN Loc(rt, age)
         ELSE Scalar(FallbackRate)

(***************************************************************************)
(* Line 106: f"Rate_{irs_7520_rate:.1f}".  The format rounds the double's  *)
(* exact value to the nearest tenth.  A decimal x.x5 is a tie only when    *)
(* the double holds it exactly (x.25, x.75: ties go to the even tenth);    *)
(* the other x.x5 of the slider's range round as their doubles lie, above  *)
(* (TiesAbove, in hundredths) or below the decimal.                        *)
(***************************************************************************)
TiesAbove == {335, 345, 375, 385, 395, 415, 445, 465, 475, 495,
              515, 545, 565, 575, 595}

\* Variant: the next tenth above (a ceiling instead of a rounding).
rate_column_ceil(rate) ==
    IF rate % 100000 = 0 THEN rate \div 100000 ELSE rate \div 100000 + 1

rate_column_for(rate) ==
    LET q == rate \div 100000
        r == rate % 100000
    IN  IF r < 50000 THEN q
        ELSE IF r > 50000 THEN q + 1
        ELSE IF rate % 250000 = 0 THEN (IF q % 2 = 0 THEN q ELSE q + 1)
        ELSE IF (rate \div 10000) \in TiesAbove THEN q + 1
        ELSE q

(***************************************************************************)
(* Lines 107-113: the annuity factor.  outcome "KeyError" is the exception *)
(* .loc raises for a column the DataFrame does not have.                   *)
(***************************************************************************)
FallbackFactor == 90

Found(f) == [outcome |-> "ok", factor |-> Scalar(f), warning |-> FALSE]
Fallback == [outcome |-> "ok", factor |-> Scalar(FallbackFactor), warning |-> TRUE]
KeyError == [outcome |-> "KeyError", factor |-> NoValue, warning |-> FALSE]

\* df.loc[label, column] for a label that is in the index.
FactorLoc(df, label, column) ==
    IF column \in df.cols THEN Found(df.rows[label][column]) ELSE KeyError

annuity_factor_for(joint, age, age2, column, fdf, jfdf) ==
    IF joint = "Yes" /\ <<age, age2>> \in DOMAIN jfdf.rows
    THEN FactorLoc(jfdf, <<age, age2>>, column)
    ELSE IF joint = "No" /\ age \in DOMAIN fdf.rows
    THEN FactorLoc(fdf, age, column)
    ELSE Fallback

(***************************************************************************)
(* Lines 115-121: the frequency adjustment, in 1/200.                      *)
(***************************************************************************)
frequency_adjustments ==
    [Annual |-> 200, Semiannual |-> 195, Quarterly |-> 192, Monthly |-> 189]

\* Variant: .get with a default of 0.0.
adjustment_default_zero(frequency) ==
    IF frequency \in DOMAIN frequency_adjustments
    THEN frequency_adjustments[frequency]
    ELSE 0

\* frequency_adjustments.get(payout_frequency, 1.0)
adjustment_for(frequency) ==
    IF frequency \in DOMAIN frequency_adjustments
    THEN frequency_adjustments[frequency]
    ELSE 200

(***************************************************************************)
(* Lines 123-126: the final calculations.                                  *)
(***************************************************************************)
\* Variant: the division by 100 is left out.
annual_payout_no_percent(gift, rate) == Times(rate, Scalar(gift))

annual_payout_of(gift, rate) == Over100(Times(rate, Scalar(gift)))
adjusted_annuity_factor_of(factor, adj) == Times(factor, Scalar(adj))
estimated_deduction_of(payout, adjusted) == Times(payout, adjusted)

(***************************************************************************)
(* The script run.                                                         *)
(***************************************************************************)
Unset ==
    /\ donor_age = 0 /\ joint_annuitant_age = 0 /\ is_joint = "No"
    /\ gift_amount = 0 /\ payout_frequency = "Annual" /\ irs_7520_rate = 0
    /\ annuity_rate = NoValue /\ rate_column = 0
    /\ annuity_factor = NoValue /\ warning = FALSE
    /\ adjustment = NoValue /\ annual_payout = NoValue
    /\ adjusted_annuity_factor = NoValue /\ estimated_deduction = NoValue
    /\ error = "none"

\* The process starts: the CSV files are what they are, nothing has run.
Init ==
    /\ pc = "load"
    /\ rate_table = <<>> /\ joint_rate_table = <<>>
    /\ sidebar_warnings = {}
    /\ annuity_factors_df \in SingleFactorTables
    /\ joint_annuity_factors_df \in JointFactorTables
    /\ Unset

\* Lines 82-83: both tables are scraped anew on every run.
LoadRateTables ==
    /\ pc = "load"
    /\ \E sp \in SinglePages, jp \in JointPages :
          /\ rate_table' = get_acga_single_life_rates(sp)
          /\ joint_rate_table' = get_acga_joint_life_rates(jp)
          /\ sidebar_warnings' =
                 {w \in {"single", "joint"} :
                     \/ w = "single" /\ sp.status = "failed"
                     \/ w = "joint" /\ jp.status = "failed"}
    /\ pc' = "inputs"
    /\ UNCHANGED <<factor_tables, request, rate_out, factor_out, calc_out, error>>

\* Lines 88-96: the widgets return what the user has set.
SidebarInputs ==
    /\ pc = "inputs"
    /\ donor_age' \in DonorAges
    /\ joint_annuitant_age' \in DonorAges
    /\ is_joint' \in JointOptions
    /\ gift_amount' \in GiftAmounts
    /\ payout_frequency' \in PayoutFrequencies
    /\ irs_7520_rate' \in SliderRates
    /\ pc' = "rate"
    /\ UNCHANGED <<tables, factor_tables, rate_out, factor_out, calc_out, error>>

\* Variant: the rate fallback raises the warning too.
GetAnnuityRateWarns ==
    /\ pc = "rate"
    /\ annuity_rate' = annuity_rate_for(is_joint, donor_age, joint_annuitant_age,
                                        rate_table, joint_rate_table)
    /\ warning' = (annuity_rate' = Scalar(FallbackRate))
    /\ pc' = "factor"
    /\ UNCHANGED <<tables, factor_tables, request, rate_column, annuity_factor,
                   calc_out, error>>

\* Lines 98-103.
GetAnnuityRate ==
    /\ pc = "rate"
    /\ annuity_rate' = annuity_rate_for(is_joint, donor_age, joint_annuitant_age,
                                        rate_table, joint_rate_table)
    /\ pc' = "factor"
    /\ UNCHANGED <<tables, factor_tables, request, factor_out, calc_out, error>>

\* Lines 105-113.
IRSFactorLookup ==
    /\ pc = "factor"
    /\ LET column == rate_column_for(irs_7520_rate)
           res == annuity_factor_for(is_joint, donor_age, joint_annuitant_age, column,
                                     annuity_factors_df, joint_annuity_factors_df)
       IN  /\ rate_column' = column
           /\ annuity_factor' = res.factor
           /\ warning' = (warning \/ res.warning)
           /\ IF res.outcome = "ok"
              THEN pc' = "calc" /\ error' = error
              ELSE pc' = "failed" /\ error' = res.outcome
    /\ UNCHANGED <<tables, factor_tables, request, rate_out, calc_out>>

\* Lines 115-126.
FinalCalculations ==
    /\ pc = "calc"
    /\ LET adj == adjustment_for(payout_frequency)
           payout == annual_payout_of(gift_amount, annuity_rate)
           adjusted == adjusted_annuity_factor_of(annuity_factor, adj)
       IN  /\ adjustment' = Scalar(adj)
           /\ annual_payout' = payout
           /\ adjusted_annuity_factor' = adjusted
           /\ estimated_deduction' = estimated_deduction_of(payout, adjusted)
    /\ pc' = "display"
    /\ UNCHANGED <<tables, factor_tables, request, rate_out, factor_out, error>>

\* Lines 128-136: f"{annuity_rate:.2f}" raises TypeError for a Series.
DisplayResults ==
    /\ pc = "display"
    /\ IF IsScalar(annuity_rate)
       THEN pc' = "done" /\ error' = error
       ELSE pc' = "failed" /\ error' = "TypeError"
    /\ UNCHANGED <<tables, factor_tables, request, rate_out, factor_out, calc_out>>

\* A widget changes: Streamlit runs the script again from the top.  The
\* cached factor tables stay; every other name is bound anew by the run.
Rerun ==
    /\ pc \in {"done", "failed"}
    /\ pc' = "load"
    /\ rate_table' = <<>> /\ joint_rate_table' = <<>>
    /\ sidebar_warnings' = {}
    /\ donor_age' = 0 /\ joint_annuitant_age' = 0 /\ is_joint' = "No"
    /\ gift_amount' = 0 /\ payout_frequency' = "Annual" /\ irs_7520_rate' = 0
    /\ annuity_rate' = NoValue /\ rate_column' = 0
    /\ annuity_factor' = NoValue /\ warning' = FALSE
    /\ adjustment' = NoValue /\ annual_payout' = NoValue
    /\ adjusted_annuity_factor' = NoValue /\ estimated_deduction' = NoValue
    /\ error' = "none"
    /\ UNCHANGED factor_tables

Next ==
    \/ LoadRateTables
    \/ SidebarInputs
    \/ GetAnnuityRate
    \/ IRSFactorLookup
    \/ FinalCalculations
    \/ DisplayResults
    \/ Rerun

Spec == Init /\ [][Next]_vars

(***************************************************************************)
(* The calculation of lines 98-136 as a function of its inputs: the same   *)
(* steps, started on any request and any tables, also those the widgets    *)
(* of lines 88-96 cannot produce.                                          *)
(***************************************************************************)
AnyGiftAmounts == {-100, 0, 1000, 100000}
AnyFrequencies == PayoutFrequencies \cup {"BiWeekly"}
AnyRates == {3000000, 4150000, 4200000, 4240000, 4249999, 4250000, 4260000,
             4300000, 6000000}
AnyRateTables == {<<>>, <<Row(75, 63)>>}
AnyJointRateTables == {<<>>, <<Row(<<67, 75>>, 55)>>}

InitCore ==
    /\ pc = "rate"
    /\ rate_table \in AnyRateTables
    /\ joint_rate_table \in AnyJointRateTables
    /\ sidebar_warnings = {}
    /\ annuity_factors_df \in SingleFactorTables
    /\ joint_annuity_factors_df \in JointFactorTables
    /\ donor_age \in DonorAges
    /\ joint_annuitant_age \in DonorAges
    /\ is_joint \in JointOptions
    /\ gift_amount \in AnyGiftAmounts
    /\ payout_frequency \in AnyFrequencies
    /\ irs_7520_rate \in AnyRates
    /\ annuity_rate = NoValue /\ rate_column = 0
    /\ annuity_factor = NoValue /\ warning = FALSE
    /\ adjustment = NoValue /\ annual_payout = NoValue
    /\ adjusted_annuity_factor = NoValue /\ estimated_deduction = NoValue
    /\ error = "none"

NextCore ==
    \/ GetAnnuityRate
    \/ IRSFactorLookup
    \/ FinalCalculations
    \/ DisplayResults

SpecCore == InitCore /\ [][NextCore]_vars

(***************************************************************************)
(* Properties.  The notions they use are stated on the tables themselves.  *)
(***************************************************************************)
RateResolved == pc \in {"factor", "calc", "display", "done", "failed"}
FactorTried == pc \in {"calc", "display", "done", "failed"}
Computed == estimated_deduction # NoValue
ResultProduced == pc = "done"

Joint == is_joint = "Yes"
LookupKey == IF Joint THEN <<donor_age, joint_annuitant_age>> ELSE donor_age
SelectedRateTable == IF Joint THEN joint_rate_table ELSE rate_table
SelectedFactorTable == IF Joint THEN joint_annuity_factors_df ELSE annuity_factors_df
RateKeyAbsent ==
    \A i \in DOMAIN SelectedRateTable : SelectedRateTable[i].key # LookupKey
FactorRowAbsent == LookupKey \notin DOMAIN SelectedFactorTable.rows
FactorColumnAbsent ==
    ~FactorRowAbsent /\ rate_column \notin SelectedFactorTable.cols
FactorFound == ~FactorRowAbsent /\ ~FactorColumnAbsent

GiftPositiveInApp == Computed => gift_amount >= GiftMin /\ gift_amount > 0

\* C2: when the (age, discount key) of the request is absent from the factor
\* table the joint flag selects, whether the row or only the column is
\* missing, the factor is exactly 9.0, the warning is raised and the lookup
\* does not end the calculation with an error.
C2_FactorMissFallsBack ==
    (FactorTried /\ (FactorRowAbsent \/ FactorColumnAbsent))
        => /\ annuity_factor = Scalar(FallbackFactor)
           /\ warning
           /\ error # "KeyError"

\* C3: when the lookup key is absent from the rate table the joint flag
\* selects (also when that table is empty), the rate is exactly 6.0.
C3_RateMissIsFallback ==
    (RateResolved /\ RateKeyAbsent) => annuity_rate = Scalar(FallbackRate)

\* C4: the warning is raised if and only if the factor was resolved by the
\* 9.0 fallback; in particular a rate resolved by the 6.0 fallback, with the
\* factor found in the table, raises no warning.
C4_WarningOnlyOnFactorFallback ==
    /\ warning <=> (FactorTried /\ FactorRowAbsent)
    /\ warning => annuity_factor = Scalar(FallbackFactor)
    /\ (FactorTried /\ RateKeyAbsent /\ FactorFound) => ~warning

C4_Witness ==
    /\ ResultProduced
    /\ RateKeyAbsent /\ annuity_rate = Scalar(FallbackRate)
    /\ FactorFound /\ annuity_factor # Scalar(FallbackFactor)
    /\ ~warning

\* C5: a joint request looks up the ordered pair (donor_age,
\* joint_annuitant_age) as given: when that pair is absent from a joint table
\* that holds the swapped pair, the fallback constant is used, not the value
\* stored under the swapped pair, whichever of the two ages is the larger.
Swapped == <<joint_annuitant_age, donor_age>>
SwappedOnlyInRates ==
    /\ Joint /\ RateKeyAbsent
    /\ \E i \in DOMAIN joint_rate_table : joint_rate_table[i].key = Swapped
SwappedOnlyInFactors ==
    /\ Joint /\ FactorRowAbsent
    /\ Swapped \in DOMAIN joint_annuity_factors_df.rows
C5_OrderedPairLookup ==
    /\ (RateResolved /\ SwappedOnlyInRates) => annuity_rate = Scalar(FallbackRate)
    /\ (FactorTried /\ SwappedOnlyInFactors)
           => annuity_factor = Scalar(FallbackFactor) /\ warning

\* The joint annuitant is the older one, and both tables hold only the
\* swapped pair.
C5_Witness ==
    /\ ResultProduced
    /\ joint_annuitant_age > donor_age
    /\ SwappedOnlyInRates /\ SwappedOnlyInFactors
    /\ annuity_rate = Scalar(FallbackRate)
    /\ annuity_factor = Scalar(FallbackFactor)

\* C6: whenever the values are computed, annual_payout = gift_amount * rate
\* / 100, adjusted_annuity_factor = factor * adjustment and
\* estimated_deduction = annual_payout * adjusted_annuity_factor; rate 6.3,
\* factor 9.5, Annual and a gift of 100000 give payout 6300 and deduction
\* 59850 (63000 tenths, 1197000000 twenty-thousandths).
C6_ArithmeticIdentity ==
    /\ Computed =>
          /\ DOMAIN annual_payout.vals = DOMAIN annuity_rate.vals
          /\ DOMAIN estimated_deduction.vals = DOMAIN annuity_rate.vals
          /\ \A i \in DOMAIN annuity_rate.vals :
                /\ annual_payout.vals[i] * 100 = gift_amount * annuity_rate.vals[i]
                /\ estimated_deduction.vals[i]
                       = annual_payout.vals[i] * Val(adjusted_annuity_factor)
          /\ Val(adjusted_annuity_factor) = Val(annuity_factor) * Val(adjustment)
    /\ (/\ ResultProduced
        /\ annuity_rate = Scalar(63) /\ annuity_factor = Scalar(95)
        /\ payout_frequency = "Annual" /\ gift_amount = 100000)
          => /\ annual_payout = Scalar(63000)
             /\ adjusted_annuity_factor = Scalar(19000)
             /\ estimated_deduction = Scalar(1197000000)

C6_Witness ==
    /\ ResultProduced
    /\ annuity_rate = Scalar(63) /\ annuity_factor = Scalar(95)
    /\ payout_frequency = "Annual" /\ gift_amount = 100000
    /\ estimated_deduction = Scalar(1197000000)

\* C7: the multiplier is 1.0 for Annual, 0.975 for Semiannual, 0.96 for
\* Quarterly and 0.945 for Monthly; for any other frequency it is 1.0 and the
\* calculation is carried out with no error and no warning of its own (the
\* warning stays that of the factor fallback).
C7_FrequencyMultiplier ==
    Computed =>
        /\ payout_frequency = "Annual" => adjustment = Scalar(200)
        /\ payout_frequency = "Semiannual" => adjustment = Scalar(195)
        /\ payout_frequency = "Quarterly" => adjustment = Scalar(192)
        /\ payout_frequency = "Monthly" => adjustment = Scalar(189)
        /\ payout_frequency \notin {"Annual", "Semiannual", "Quarterly", "Monthly"}
              => /\ adjustment = Scalar(200)
                 /\ error = "none"
                 /\ warning <=> FactorRowAbsent

C7_Witness ==
    /\ ResultProduced
    /\ payout_frequency = "BiWeekly"
    /\ adjustment = Scalar(200)
    /\ ~warning /\ error = "none"

\* C8: every rate gets a column key of one decimal; a rate that is a whole
\* number of tenths gets its own key; 4.2, 4.24 and 4.249999 all get "4.2";
\* and a factor found in the table is the entry of that one column.
C8_Quantization ==
    FactorTried =>
        /\ rate_column \in Int
        /\ rate_column * 100000 - 100000 < irs_7520_rate
        /\ irs_7520_rate < rate_column * 100000 + 100000
        /\ irs_7520_rate % 100000 = 0 => rate_column * 100000 = irs_7520_rate
        /\ irs_7520_rate \in {4200000, 4240000, 4249999} => rate_column = 42
        /\ (FactorFound /\ error = "none")
              => annuity_factor
                     = Scalar(SelectedFactorTable.rows[LookupKey][rate_column])

\* 4.249999 is looked up in column "4.2" of a table that also has "4.3".
C8_Witness ==
    /\ ResultProduced
    /\ irs_7520_rate = 4249999 /\ rate_column = 42
    /\ 43 \in SelectedFactorTable.cols
    /\ FactorFound /\ annuity_factor = Scalar(95)

\* C9: after construction each key of a rate table maps to one rate, so the
\* lookup of a key that occurred several times in the rows yields one value.
C9_OneRatePerKey ==
    /\ \A i, j \in DOMAIN rate_table :
          rate_table[i].key = rate_table[j].key
              => rate_table[i].rate = rate_table[j].rate
    /\ \A i, j \in DOMAIN joint_rate_table :
          joint_rate_table[i].key = joint_rate_table[j].key
              => joint_rate_table[i].rate = joint_rate_table[j].rate
    /\ RateResolved => IsScalar(annuity_rate)

\* C10: for a non-joint request rate, factor, warning, payout and deduction
\* are those of the same request with any other joint annuitant age, any
\* other joint rate table and any other joint factor table.
OtherJointRateTables == {get_acga_joint_life_rates(p) : p \in JointPages}
C10_NonJointIgnoresJointData ==
    ~Joint =>
        /\ \A a2 \in DonorAges, jrt \in OtherJointRateTables :
              LET rate == annuity_rate_for(is_joint, donor_age, a2, rate_table, jrt)
              IN  /\ RateResolved => annuity_rate = rate
                  /\ Computed => annual_payout = annual_payout_of(gift_amount, rate)
        /\ \A a2 \in DonorAges, jfdf \in JointFactorTables :
              LET res == annuity_factor_for(is_joint, donor_age, a2, rate_column,
                                            annuity_factors_df, jfdf)
              IN  /\ FactorTried =>
                        /\ annuity_factor = res.factor
                        /\ warning = res.warning
                        /\ (error = "KeyError") <=> (res.outcome = "KeyError")
                  /\ Computed =>
                        estimated_deduction
                            = estimated_deduction_of(annual_payout,
                                  adjusted_annuity_factor_of(res.factor, Val(adjustment)))

\* A non-joint request whose age pair is in the joint rate table and in the
\* joint factor table.
C10_Witness ==
    /\ ResultProduced /\ ~Joint
    /\ \E i \in DOMAIN joint_rate_table :
          joint_rate_table[i].key = <<donor_age, joint_annuitant_age>>
    /\ <<donor_age, joint_annuitant_age>> \in DOMAIN joint_annuity_factors_df.rows

====
